---- MODULE Spec2Model ----
(***************************************************************************)
(* Model of getSystemStatus/__init__.py: the HTTP handler `main`, which    *)
(* answers OPTIONS at once and otherwise lists the sibling function        *)
(* directories (get_function_list), probes each one in turn                *)
(* (check_function) and returns one JSON status report.                    *)
(*                                                                         *)
(* Names are sequences of one-character strings, so that str.lower() and   *)
(* str.startswith() are computed character by character.  Durations are    *)
(* whole microseconds (the resolution of datetime); the code's `elapsed`   *)
(* in milliseconds is that number divided by 1000.                         *)
(***************************************************************************)
EXTENDS Integers, Sequences, FiniteSets, TLC

VARIABLES
    pc,                 \* position of the handler
    req,                \* the request being served: [method, headers]
    listing,            \* what os.listdir returned, in its order
    discovered,         \* get_function_list has been called for this request
    all_functions,      \* main: all_functions
    functions_to_check, \* main: functions_to_check
    function_statuses,  \* main: function_statuses, as built so far
    requested,          \* names an outbound GET was issued for, in order
    inflight,           \* names whose outbound GET has not returned yet
    answers,            \* what each outbound GET produced, in order
    raised,             \* str(e) of the exception the try block let out, or NoException
    response            \* the HttpResponse returned, or NoResponse

vars == <<pc, req, listing, discovered, all_functions, functions_to_check,
          function_statuses, requested, inflight, answers, raised, response>>

\* Longest directory listing explored.
MaxEntries == 2

-----------------------------------------------------------------------------
(* Strings as character sequences *)

UpperCase ==
    {"A","B","C","D","E","F","G","H","I","J","K","L","M",
     "N","O","P","Q","R","S","T","U","V","W","X","Y","Z"}

ToLowerTable ==
    ("A" :> "a") @@ ("B" :> "b") @@ ("C" :> "c") @@ ("D" :> "d") @@
    ("E" :> "e") @@ ("F" :> "f") @@ ("G" :> "g") @@ ("H" :> "h") @@
    ("I" :> "i") @@ ("J" :> "j") @@ ("K" :> "k") @@ ("L" :> "l") @@
    ("M" :> "m") @@ ("N" :> "n") @@ ("O" :> "o") @@ ("P" :> "p") @@
    ("Q" :> "q") @@ ("R" :> "r") @@ ("S" :> "s") @@ ("T" :> "t") @@
    ("U" :> "u") @@ ("V" :> "v") @@ ("W" :> "w") @@ ("X" :> "x") @@
    ("Y" :> "y") @@ ("Z" :> "z")

\* str.lower()
lower(s) ==
    [i \in 1..Len(s) |-> IF s[i] \in UpperCase THEN ToLowerTable[s[i]] ELSE s[i]]

\* str.startswith(prefix)
startswith(s, prefix) ==
    /\ Len(s) >= Len(prefix)
    /\ SubSeq(s, 1, Len(prefix)) = prefix

\* sum(...) over a sequence of integers
RECURSIVE Sum(_)
Sum(s) == IF s = <<>> THEN 0 ELSE Head(s) + Sum(Tail(s))

-----------------------------------------------------------------------------
(* Literals of the source *)

STR_tests           == <<"t","e","s","t","s">>
STR_getsystemstatus == <<"g","e","t","s","y","s","t","e","m","s","t","a","t","u","s">>
STR_callback        == <<"c","a","l","l","b","a","c","k">>
STR_dunder          == <<"_","_">>
STR_dot             == <<".">>

allowed_origins == {"http://localhost:5173", "https://seeker.cityoftraitors.com"}
host_names      == <<"seeker-functions.azurewebsites.net">>

-----------------------------------------------------------------------------
(* The environment: requests, the deployment directory, the peers' answers *)

Methods == {"OPTIONS", "GET", "POST"}

\* Request header sets: no Origin header, or an Origin header with one of
\* these values.
OriginValues ==
    {"http://localhost:5173", "https://seeker.cityoftraitors.com",
     "https://evil.example"}
RequestHeaders ==
    {<<>>} \cup {[Origin |-> o] : o \in OriginValues}

\* Entries the deployment directory may hold.
DeploymentEntries ==
    { [name |-> <<"t","e","s","t","s">>, isdir |-> TRUE],
      [name |-> <<"T","e","s","t","s">>, isdir |-> TRUE],
      [name |-> <<"g","e","t","S","y","s","t","e","m","S","t","a","t","u","s">>, isdir |-> TRUE],
      [name |-> <<"c","a","l","l","b","a","c","k">>, isdir |-> TRUE],
      [name |-> <<"C","a","l","l","b","a","c","k">>, isdir |-> TRUE],
      [name |-> <<"_","_","p","y","c","a","c","h","e","_","_">>, isdir |-> TRUE],
      [name |-> <<".","v","e","n","v">>, isdir |-> TRUE],
      [name |-> <<"h","o","s","t",".","j","s","o","n">>, isdir |-> FALSE],
      [name |-> <<"a","d","d","C","a","r","d">>, isdir |-> TRUE],
      [name |-> <<"g","e","t","U","s","e","r">>, isdir |-> TRUE] }

\* Results of os.listdir: distinct entries in any order.
Listings ==
    UNION { { l \in [1..n -> DeploymentEntries] :
                \A i, j \in 1..n : i # j => l[i] # l[j] } : n \in 0..MaxEntries }

\* HTTP status codes a peer may answer with.
StatusCodes == {200, 404, 500, 503}

\* Measured durations of an answered probe, in microseconds.
Durations == {1400, 42600}

\* str(e) of a requests.exceptions.RequestException.
NetworkErrors == {"Read timed out", "Connection refused"}

NoResponse == <<>>

NoException == "(none)"

-----------------------------------------------------------------------------
(* get_function_list *)

\* The condition of the if statement in the loop over os.listdir.
IsListed(entry) ==
    /\ entry.isdir
    /\ ~startswith(entry.name, STR_dunder)
    /\ ~startswith(entry.name, STR_dot)
    /\ entry.name # STR_tests
    /\ lower(entry.name) # STR_getsystemstatus

RECURSIVE get_function_list(_)
get_function_list(entries) ==
    IF entries = <<>> THEN <<>>
    ELSE IF IsListed(Head(entries))
         THEN <<lower(Head(entries).name)>> \o get_function_list(Tail(entries))
         ELSE get_function_list(Tail(entries))

-----------------------------------------------------------------------------
(* check_function *)

\* Python's round-half-to-even of the fraction n/d (d > 0), as f"{x:.0f}".
RoundHalfEven(n, d) ==
    LET q == n \div d
        r == n % d
    IN  IF 2 * r < d THEN q
        ELSE IF 2 * r > d THEN q + 1
        ELSE IF q % 2 = 0 THEN q ELSE q + 1

\* f"{elapsed:.0f}ms" of n/d milliseconds
FormatMs(n, d) == ToString(RoundHalfEven(n, d)) \o "ms"

\* f"{x:.1f}%" of the fraction n/d
FormatPercent(n, d) ==
    LET tenths == RoundHalfEven(10 * n, d)
    IN  ToString(tenths \div 10) \o "." \o ToString(tenths % 10) \o "%"

\* Faulty variant: the comparison admits 500 itself.
ProbeStatus_Upto500(status_code) ==
    IF status_code <= 500 THEN "running" ELSE "error"

ProbeStatus(status_code) ==
    IF status_code < 500 THEN "running" ELSE "error"

\* The dictionary returned when requests.get returned a response.
AnsweredResult(func_name, status_code, elapsed) ==
    [ name          |-> func_name,
      status        |-> ProbeStatus(status_code),
      response_time |-> FormatMs(elapsed, 1000),
      status_code   |-> status_code,
      elapsed       |-> elapsed ]

\* Faulty variant: the failed probe reports the timeout as its duration.
FailedResult_TimeoutAsElapsed(func_name, e) ==
    [ name          |-> func_name,
      status        |-> "error",
      response_time |-> "5000ms",
      status_code   |-> 500,
      elapsed       |-> 5000000,
      error         |-> e ]

\* The dictionary returned when requests.get raised a RequestException.
FailedResult(func_name, e) ==
    [ name          |-> func_name,
      status        |-> "error",
      response_time |-> "0ms",
      status_code   |-> 500,
      elapsed       |-> 0,
      error         |-> e ]

-----------------------------------------------------------------------------
(* main *)

OriginOf(headers) ==
    IF "Origin" \in DOMAIN headers THEN headers["Origin"] ELSE ""

\* Faulty variant: every Origin is reflected.
add_cors_headers_ReflectAny(headers, origin) ==
    ("Access-Control-Allow-Methods" :> "GET, OPTIONS") @@
    ("Access-Control-Allow-Headers" :> "Content-Type") @@
    headers @@ ("Access-Control-Allow-Origin" :> origin)

\* add_cors_headers: the headers of the response after the call.
add_cors_headers(headers, origin) ==
    LET reflected == IF origin \in allowed_origins
                     THEN headers @@ ("Access-Control-Allow-Origin" :> origin)
                     ELSE headers
    IN  ("Access-Control-Allow-Methods" :> "GET, OPTIONS") @@
        ("Access-Control-Allow-Headers" :> "Content-Type") @@ reflected

\* Faulty variant: the method is compared with the lower-case word.
IsPreflight_LowerCase(method) == method = "options"

IsPreflight(method) == method = "OPTIONS"

IsNotCallback(f) == lower(f) # STR_callback

\* Faulty variant: nothing is filtered out.
FunctionsToCheck_Unfiltered(functions) == functions

FunctionsToCheck(functions) == SelectSeq(functions, IsNotCallback)

IsRunning(f) == f.status = "running"

\* Faulty variant: every checked function counts as healthy.
HealthyFunctions_All(statuses) == statuses

HealthyFunctions(statuses) == SelectSeq(statuses, IsRunning)

TotalResponseTime(statuses) ==
    Sum([i \in 1..Len(statuses) |-> statuses[i].elapsed])

\* Faulty variant: one healthy function is enough.
OverallState_AnyHealthy(healthy, num_checked_functions) ==
    IF healthy > 0 \/ num_checked_functions = 0 THEN "running" ELSE "degraded"

OverallState(healthy, num_checked_functions) ==
    IF healthy = num_checked_functions THEN "running" ELSE "degraded"

OverallAvailability(healthy, num_checked_functions) ==
    IF healthy = num_checked_functions THEN "normal" ELSE "limited"

Metrics(statuses, num_checked_functions) ==
    LET healthy == Len(HealthyFunctions(statuses))
        total   == TotalResponseTime(statuses)
    IN  << [name |-> "Total Functions Checked", value |-> num_checked_functions],
           [name |-> "Healthy Functions", value |-> healthy],
           [name |-> "Average Response Time",
            value |-> IF num_checked_functions > 0
                      THEN FormatMs(total, 1000 * num_checked_functions)
                      ELSE FormatMs(0, 1)],
           [name |-> "Health Percentage",
            value |-> IF num_checked_functions > 0
                      THEN FormatPercent(healthy * 100, num_checked_functions)
                      ELSE FormatPercent(0, 1)] >>

\* The status dictionary of the try block.
StatusReport(statuses, num_checked_functions) ==
    LET healthy == Len(HealthyFunctions(statuses))
    IN  [ state        |-> OverallState(healthy, num_checked_functions),
          availability |-> OverallAvailability(healthy, num_checked_functions),
          last_checked |-> "utcnow",
          host_names   |-> host_names,
          functions    |-> statuses,
          metrics      |-> Metrics(statuses, num_checked_functions) ]

\* Faulty variant: the results gathered before the exception are kept.
FaultReport_Partial(e) ==
    [ state        |-> "error",
      availability |-> "limited",
      last_checked |-> "utcnow",
      host_names   |-> host_names,
      functions    |-> function_statuses,
      error        |-> e ]

\* The status dictionary of the except block.
FaultReport(e) ==
    [ state        |-> "error",
      availability |-> "limited",
      last_checked |-> "utcnow",
      host_names   |-> host_names,
      error        |-> e ]

OptionsResponse(origin) ==
    [ status_code |-> 200,
      body        |-> <<>>,
      headers     |-> add_cors_headers(<<>>, origin) ]

ReportResponse(status, origin) ==
    [ status_code |-> 200,
      body        |-> status,
      headers     |-> add_cors_headers(<<>>, origin) ]

\* Faulty variant: the fault report goes out as a server error.
FaultResponse_Status500(e, origin) ==
    [ status_code |-> 500,
      body        |-> FaultReport(e),
      headers     |-> add_cors_headers(<<>>, origin) ]

FaultResponse(e, origin) ==
    [ status_code |-> 200,
      body        |-> FaultReport(e),
      headers     |-> add_cors_headers(<<>>, origin) ]

-----------------------------------------------------------------------------
(* The handler as a state machine *)

Init ==
    /\ pc = "idle"
    /\ req = [method |-> "GET", headers |-> <<>>]
    /\ listing = <<>>
    /\ discovered = FALSE
    /\ all_functions = <<>>
    /\ functions_to_check = <<>>
    /\ function_statuses = <<>>
    /\ requested = <<>>
    /\ inflight = {}
    /\ answers = <<>>
    /\ raised = NoException
    /\ response = NoResponse

\* The platform invokes main with a request; nothing of an earlier
\* invocation is kept.
Receive ==
    /\ pc \in {"idle", "done"}
    /\ \E m \in Methods, h \in RequestHeaders :
          req' = [method |-> m, headers |-> h]
    /\ pc' = "main"
    /\ listing' = <<>>
    /\ discovered' = FALSE
    /\ all_functions' = <<>>
    /\ functions_to_check' = <<>>
    /\ function_statuses' = <<>>
    /\ requested' = <<>>
    /\ inflight' = {}
    /\ answers' = <<>>
    /\ raised' = NoException
    /\ response' = NoResponse

\* if req.method == "OPTIONS": return add_cors_headers(HttpResponse(200))
Options ==
    /\ pc = "main"
    /\ IsPreflight(req.method)
    /\ response' = OptionsResponse(OriginOf(req.headers))
    /\ pc' = "done"
    /\ UNCHANGED <<req, listing, discovered, all_functions, functions_to_check,
                   function_statuses, requested, inflight, answers, raised>>

\* The except block: any exception of the try block ends the request with
\* the fault report.
Fault(e) ==
    /\ response' = FaultResponse(e, OriginOf(req.headers))
    /\ raised' = e
    /\ pc' = "done"
    /\ inflight' = {}

\* all_functions = get_function_list(); functions_to_check = [...]
Discover ==
    /\ pc = "main"
    /\ ~IsPreflight(req.method)
    /\ \E l \in Listings :
          /\ listing' = l
          /\ all_functions' = get_function_list(l)
          /\ functions_to_check' = FunctionsToCheck(get_function_list(l))
    /\ discovered' = TRUE
    /\ pc' = "probe"
    /\ UNCHANGED <<req, function_statuses, requested, inflight, answers, raised,
                   response>>

\* os.listdir raises (the directory cannot be read).
DiscoverFault ==
    /\ pc = "main"
    /\ ~IsPreflight(req.method)
    /\ discovered' = TRUE
    /\ Fault("listdir failed")
    /\ UNCHANGED <<req, listing, all_functions, functions_to_check,
                   function_statuses, requested, answers>>

\* check_function(func_name): requests.get is issued for the next name.
ProbeStart ==
    /\ pc = "probe"
    /\ Len(function_statuses) < Len(functions_to_check)
    /\ LET func_name == functions_to_check[Len(function_statuses) + 1]
       IN  /\ requested' = Append(requested, func_name)
           /\ inflight' = inflight \cup {func_name}
    /\ pc' = "waiting"
    /\ UNCHANGED <<req, listing, discovered, all_functions, functions_to_check,
                   function_statuses, answers, raised, response>>

\* requests.get returned a response.
ProbeAnswered ==
    /\ pc = "waiting"
    /\ \E status_code \in StatusCodes, elapsed \in Durations :
          /\ answers' = Append(answers, [kind |-> "response",
                                         status_code |-> status_code,
                                         elapsed |-> elapsed])
          /\ function_statuses' =
                Append(function_statuses,
                       AnsweredResult(requested[Len(requested)], status_code, elapsed))
    /\ inflight' = {}
    /\ pc' = "probe"
    /\ UNCHANGED <<req, listing, discovered, all_functions, functions_to_check,
                   requested, raised, response>>

\* requests.get raised a RequestException (timeout, refused, DNS, ...).
ProbeFailed ==
    /\ pc = "waiting"
    /\ \E e \in NetworkErrors :
          /\ answers' = Append(answers, [kind |-> "exception", e |-> e])
          /\ function_statuses' =
                Append(function_statuses, FailedResult(requested[Len(requested)], e))
    /\ inflight' = {}
    /\ pc' = "probe"
    /\ UNCHANGED <<req, listing, discovered, all_functions, functions_to_check,
                   requested, raised, response>>

\* check_function raised something that is no RequestException.
ProbeFault ==
    /\ pc = "waiting"
    /\ Fault("probe raised")
    /\ UNCHANGED <<req, listing, discovered, all_functions, functions_to_check,
                   function_statuses, requested, answers>>

\* The metrics, the status dictionary and the response of the try block.
Aggregate ==
    /\ pc = "probe"
    /\ Len(function_statuses) = Len(functions_to_check)
    /\ response' = ReportResponse(
                       StatusReport(function_statuses, Len(functions_to_check)),
                       OriginOf(req.headers))
    /\ pc' = "done"
    /\ UNCHANGED <<req, listing, discovered, all_functions, functions_to_check,
                   function_statuses, requested, inflight, answers, raised>>

\* json.dumps or the arithmetic raised.
AggregateFault ==
    /\ pc = "probe"
    /\ Len(function_statuses) = Len(functions_to_check)
    /\ Fault("aggregation raised")
    /\ UNCHANGED <<req, listing, discovered, all_functions, functions_to_check,
                   function_statuses, requested, answers>>

Next ==
    \/ Receive
    \/ Options
    \/ Discover
    \/ DiscoverFault
    \/ ProbeStart
    \/ ProbeAnswered
    \/ ProbeFailed
    \/ ProbeFault
    \/ Aggregate
    \/ AggregateFault

Spec == Init /\ [][Next]_vars

-----------------------------------------------------------------------------
(* Properties *)

Returned       == pc = "done"
IsOptions      == req.method = "OPTIONS"
Body           == response.body
IsNormalReport == Returned /\ "functions" \in DOMAIN Body
IsFaultReport  == Returned /\ "error" \in DOMAIN Body
HasOrigin      == "Origin" \in DOMAIN req.headers

RunningCount(fs) == Cardinality({i \in 1..Len(fs) : fs[i].status = "running"})

NamesOf(fs) == [i \in 1..Len(fs) |-> fs[i].name]

NotTheCallbackName(f) == f # <<"c","a","l","l","b","a","c","k">>

IsPrefix(s, t) == Len(s) <= Len(t) /\ s = SubSeq(t, 1, Len(s))

\* C1: every response main returns has transport status 200: the OPTIONS
\* answer, the normal report and the fault report alike.
C1_AlwaysStatus200 ==
    Returned => response.status_code = 200

C1_Witness ==
    /\ IsFaultReport
    /\ ~IsOptions
    /\ Len(function_statuses) >= 1
    /\ response.status_code = 200

\* C2: in a normal report, state is "running" and availability "normal"
\* exactly when the number of results with status "running" equals the number
\* of probed services (zero included); otherwise "degraded" and "limited".
C2_StateAndAvailability ==
    IsNormalReport =>
        LET healthy == RunningCount(Body.functions)
            probed  == Len(requested)
        IN  /\ healthy = probed =>
                Body.state = "running" /\ Body.availability = "normal"
            /\ healthy # probed =>
                Body.state = "degraded" /\ Body.availability = "limited"

C2_Witness ==
    /\ IsNormalReport
    /\ Len(requested) = 2
    /\ RunningCount(Body.functions) = 1
    /\ Body.state = "degraded"
    /\ Body.availability = "limited"

\* C3: a probe that got an HTTP response reports "running" exactly when the
\* status code is below 500, and reports that status code unchanged; so a 503
\* among the probed services makes the report "degraded", while answers below
\* 500 (404 included) on every probe leave it "running".
C3_RunningIffBelow500 ==
    /\ \A i \in 1..Len(function_statuses) :
          answers[i].kind = "response" =>
              /\ function_statuses[i].status_code = answers[i].status_code
              /\ function_statuses[i].status = "running"
                    <=> answers[i].status_code < 500
              /\ function_statuses[i].status \in {"running", "error"}
    /\ IsNormalReport =>
          /\ (\E i \in 1..Len(answers) :
                 answers[i].kind = "response" /\ answers[i].status_code = 503)
                => Body.state = "degraded"
          /\ (\A i \in 1..Len(answers) :
                 answers[i].kind = "response" /\ answers[i].status_code < 500)
                => Body.state = "running"

C3_Witness ==
    /\ IsNormalReport
    /\ Len(answers) = 2
    /\ answers[1].kind = "response" /\ answers[1].status_code = 404
    /\ answers[2].kind = "response" /\ answers[2].status_code = 503
    /\ Body.functions[1].status = "running"
    /\ Body.functions[2].status = "error"
    /\ Body.state = "degraded"

\* C4: a probe that fails with a network error yields a result with status
\* "error", status_code 500, elapsed 0, response_time "0ms" and the error
\* string; the request goes on: the remaining services are probed, no probe is
\* repeated, and the handler returns a normal, "degraded" report.
C4_NetworkErrorIsAResult ==
    /\ \A i \in 1..Len(function_statuses) :
          answers[i].kind = "exception" =>
              /\ function_statuses[i].status = "error"
              /\ function_statuses[i].status_code = 500
              /\ function_statuses[i].elapsed = 0
              /\ function_statuses[i].response_time = "0ms"
              /\ "error" \in DOMAIN function_statuses[i]
              /\ function_statuses[i].error = answers[i].e
    /\ IsPrefix(requested, functions_to_check)
    /\ (Returned /\ ~IsOptions /\ raised = NoException) =>
          /\ IsNormalReport
          /\ requested = functions_to_check
          /\ Len(Body.functions) = Len(functions_to_check)
          /\ (\E i \in 1..Len(answers) : answers[i].kind = "exception")
                => Body.state = "degraded"

C4_Witness ==
    /\ IsNormalReport
    /\ Len(answers) = 2
    /\ answers[1].kind = "exception"
    /\ answers[2].kind = "response" /\ answers[2].status_code = 200
    /\ Body.functions[1].status_code = 500
    /\ Body.functions[2].status = "running"
    /\ Body.state = "degraded"

\* C5: when an exception leaves the try block, the body has state "error",
\* availability "limited", the usual host_names and the error string, and
\* neither functions nor metrics, whatever probes had completed before.
C5_FaultReportShape ==
    (Returned /\ raised # NoException) =>
        /\ DOMAIN Body = {"state", "availability", "last_checked", "host_names", "error"}
        /\ Body.state = "error"
        /\ Body.availability = "limited"
        /\ Body.host_names = <<"seeker-functions.azurewebsites.net">>
        /\ Body.error = raised

C5_Witness ==
    /\ Returned
    /\ raised # NoException
    /\ Len(function_statuses) >= 1
    /\ Body.state = "error"
    /\ "functions" \notin DOMAIN Body

\* C6: an OPTIONS request is answered (empty body, CORS headers) with no call
\* of get_function_list and no outbound probe; a request with any other
\* method calls discovery and, unless an exception ends it, probes every
\* service to check and returns the report.
C6_OptionsSkipsDiscovery ==
    /\ (pc # "idle" /\ IsOptions) =>
          /\ ~discovered
          /\ requested = <<>>
          /\ Returned =>
                /\ DOMAIN Body = {}
                /\ "Access-Control-Allow-Methods" \in DOMAIN response.headers
    /\ (Returned /\ ~IsOptions) =>
          /\ discovered
          /\ raised = NoException =>
                /\ requested = functions_to_check
                /\ IsNormalReport

C6_Witness ==
    /\ Returned
    /\ IsOptions
    /\ ~discovered
    /\ DOMAIN Body = {}

\* C7: on every response the Access-Control-Allow-Origin header is present
\* exactly when the request's Origin is one of the two allow-listed origins,
\* and then carries that Origin; Access-Control-Allow-Methods and
\* Access-Control-Allow-Headers are always set.
C7_CorsAllowList ==
    Returned =>
        LET h       == response.headers
            allowed == /\ HasOrigin
                       /\ req.headers["Origin"] \in
                             {"http://localhost:5173",
                              "https://seeker.cityoftraitors.com"}
        IN  /\ "Access-Control-Allow-Origin" \in DOMAIN h <=> allowed
            /\ allowed => h["Access-Control-Allow-Origin"] = req.headers["Origin"]
            /\ "Access-Control-Allow-Methods" \in DOMAIN h
            /\ h["Access-Control-Allow-Methods"] = "GET, OPTIONS"
            /\ "Access-Control-Allow-Headers" \in DOMAIN h
            /\ h["Access-Control-Allow-Headers"] = "Content-Type"

C7_Witness ==
    /\ IsFaultReport
    /\ HasOrigin
    /\ req.headers["Origin"] = "https://evil.example"
    /\ "Access-Control-Allow-Origin" \notin DOMAIN response.headers
    /\ "Access-Control-Allow-Methods" \in DOMAIN response.headers

\* C8: the names discovery returns are lower-cased and never include "tests",
\* "getsystemstatus" or a name beginning with "__" or "."; a directory named
\* in any letter case of "tests" or of the aggregator's name contributes no
\* name.
C8_DiscoveryExcludesReserved ==
    /\ \A i \in 1..Len(all_functions) :
          /\ all_functions[i] = lower(all_functions[i])
          /\ all_functions[i] # <<"t","e","s","t","s">>
          /\ all_functions[i] #
                <<"g","e","t","s","y","s","t","e","m","s","t","a","t","u","s">>
          /\ ~startswith(all_functions[i], <<"_","_">>)
          /\ ~startswith(all_functions[i], <<".">>)
    /\ Len(all_functions) <=
          Cardinality({i \in 1..Len(listing) :
                          /\ lower(listing[i].name) # <<"t","e","s","t","s">>
                          /\ lower(listing[i].name) #
                                <<"g","e","t","s","y","s","t","e","m","s","t","a","t","u","s">>})

\* C9: probes are issued one at a time, one per name of discovery's output
\* other than "callback", in discovery order, and the report's functions are
\* those results in that order; "callback" is never probed and never in
\* functions, though discovery lists it.
C9_SequentialProbesInOrder ==
    LET expected == SelectSeq(all_functions, NotTheCallbackName)
    IN  /\ Cardinality(inflight) <= 1
        /\ inflight # {} <=> pc = "waiting"
        /\ raised = NoException =>
              Len(requested) = Len(function_statuses) + Cardinality(inflight)
        /\ Len(requested) <= Len(function_statuses) + 1
        /\ IsPrefix(requested, expected)
        /\ NamesOf(function_statuses) = SubSeq(requested, 1, Len(function_statuses))
        /\ \A i \in 1..Len(requested) : NotTheCallbackName(requested[i])
        /\ IsNormalReport =>
              /\ requested = expected
              /\ NamesOf(Body.functions) = expected

C9_Witness ==
    /\ IsNormalReport
    /\ Len(listing) = 2
    /\ listing[1].name = <<"C","a","l","l","b","a","c","k">>
    /\ all_functions[1] = <<"c","a","l","l","b","a","c","k">>
    /\ Len(all_functions) = 2
    /\ Len(Body.functions) = 1
    /\ Body.functions[1].name = all_functions[2]

\* C10: a normal report has exactly four metrics, in the order Total Functions
\* Checked, Healthy Functions, Average Response Time, Health Percentage; the
\* total is the number of entries of functions, the healthy count the number
\* of those with status "running", and with nothing probed the average
\* response time and the health percentage are 0.
C10_MetricsShape ==
    IsNormalReport =>
        LET m == Body.metrics
        IN  /\ Len(m) = 4
            /\ m[1].name = "Total Functions Checked"
            /\ m[2].name = "Healthy Functions"
            /\ m[3].name = "Average Response Time"
            /\ m[4].name = "Health Percentage"
            /\ m[1].value = Len(Body.functions)
            /\ m[2].value = RunningCount(Body.functions)
            /\ 0 <= m[2].value /\ m[2].value <= m[1].value
            /\ Len(Body.functions) = 0 =>
                  m[3].value = "0ms" /\ m[4].value = "0.0%"

C10_Witness ==
    /\ IsNormalReport
    /\ Len(all_functions) = 1
    /\ Len(Body.functions) = 0
    /\ Body.metrics[1].value = 0
    /\ Body.metrics[3].value = "0ms"
    /\ Body.metrics[4].value = "0.0%"

=============================================================================
